---- MODULE Spec2Model ----
(***************************************************************************)
(* The moving-average cross-over trend detector of                         *)
(* src/sentry/statistical_detectors/algorithm.py.                          *)
(*                                                                         *)
(* Numbers: a float is an exact rational <<numerator, denominator>> in     *)
(* lowest terms with a positive denominator.  A datetime is an integer     *)
(* number of ticks since the Unix epoch, TicksPerSecond ticks to a second; *)
(* Optional[datetime] is <<>> (None) or <<ticks>>.  MovingAverage objects  *)
(* are mutable and live in a heap of instances; a detector holds the       *)
(* addresses of its two instances.                                         *)
(***************************************************************************)
EXTENDS Integers, Sequences, FiniteSets, TLC

VARIABLES
    config,     \* the MovingAverageCrossOverDetectorConfig the caller uses
    heap,       \* address -> MovingAverage instance
    detector,   \* entity -> MovingAverageCrossOverDetector instance
    initial,    \* entity -> the state its first detector was constructed from
    stream,     \* entity -> the payloads its detector accepted, in order
    results,    \* entity -> the TrendType returned for each accepted payload
    last,       \* the most recent update call: payload, result, state before
    reloads,    \* entity -> how the caller has reconstructed the detector
    rt_state,   \* serialization: the state being written
    rt_data,    \* serialization: <<>> or <<the mapping written>>
    rt_loaded   \* serialization: <<>> or <<the outcome of reading it back>>

vars == <<config, heap, detector, initial, stream, results, last, reloads,
          rt_state, rt_data, rt_loaded>>

-----------------------------------------------------------------------------
(* Bounds *)

MaxTime == 2
MaxUpdates == 3
MaxMinDataPoints == 2
TicksPerSecond == 2
ScenarioMaxTime == 5
EntityUpdates == 2
MaxRoundTripCount == 2

Values == {10, 50, 100}

-----------------------------------------------------------------------------
(* Exact arithmetic on floats *)

Abs(i) == IF i < 0 THEN -i ELSE i

RECURSIVE GCD(_, _)
GCD(a, b) == IF b = 0 THEN a ELSE GCD(b, a % b)

Rat(n, d) ==
    LET g == GCD(Abs(n), d)
    IN  IF n = 0 THEN <<0, 1>> ELSE <<n \div g, d \div g>>

RatAdd(a, b) == Rat(a[1] * b[2] + b[1] * a[2], a[2] * b[2])
RatScale(a, k) == Rat(a[1] * k, a[2])
RatDiv(a, k) == Rat(a[1], a[2] * k)
RatLT(a, b) == a[1] * b[2] < b[1] * a[2]
RatLE(a, b) == a[1] * b[2] <= b[1] * a[2]

\* Truncation toward zero, as Python's int() does on a float.
Trunc(n, d) == IF n >= 0 THEN n \div d ELSE -((-n) \div d)

None == <<>>

-----------------------------------------------------------------------------
(* sentry.utils.math.MovingAverage and the factories of the config *)

\* The fresh instance a factory returns, before set() is called on it.
MovingAverage(kind) == [kind |-> kind, value |-> <<0, 1>>, n |-> 0]

MovingAverage_set(ma, value, n) == [ma EXCEPT !.value = value, !.n = n]

MovingAverage_update(ma, x) ==
    [ma EXCEPT
        !.value = IF ma.kind = "latest"
                  THEN x
                  ELSE RatDiv(RatAdd(RatScale(ma.value, ma.n), x), ma.n + 1),
        !.n = ma.n + 1]

\* Calling a factory allocates a new instance at an address not in use.
NewAddress(hp) ==
    CHOOSE a \in 1..(Cardinality(DOMAIN hp) + 1) :
        /\ a \notin DOMAIN hp
        /\ \A b \in 1..(a - 1) : b \in DOMAIN hp

factory(hp, kind) ==
    LET a == NewAddress(hp)
    IN  [heap |-> [x \in DOMAIN hp \cup {a} |->
                      IF x = a THEN MovingAverage(kind) ELSE hp[x]],
         ref |-> a]

-----------------------------------------------------------------------------
(* MovingAverageCrossOverDetectorState *)

FIELD_TIMESTAMP == "T"
FIELD_COUNT == "C"
FIELD_MOVING_AVG_SHORT == "S"
FIELD_MOVING_AVG_LONG == "L"

MovingAverageCrossOverDetectorState(timestamp, count, moving_avg_short, moving_avg_long) ==
    [timestamp |-> timestamp, count |-> count,
     moving_avg_short |-> moving_avg_short, moving_avg_long |-> moving_avg_long]

empty == MovingAverageCrossOverDetectorState(None, 0, <<0, 1>>, <<0, 1>>)

\* Values of a redis mapping carry their Python type.
PyInt(i) == [type |-> "int", val |-> i]
PyFloat(r) == [type |-> "float", val |-> r]
PyStr(s) == [type |-> "str", val |-> s]
PyNone == [type |-> "NoneType", val |-> 0]

\* The strings Python parses as an integer, and as a float.
IntLiterals == {"7"}
FloatLiterals == {"7", "2.5"}

\* datetime.timestamp() followed by int(): whole seconds, truncated toward zero.
timestamp_seconds(ticks) == Trunc(ticks, TicksPerSecond)

\* datetime.fromtimestamp(seconds, timezone.utc)
fromtimestamp(seconds) == seconds * TicksPerSecond

\* A slip: the long average written from the short one.
to_redis_dict_short_as_long(self) ==
    LET keys == {FIELD_COUNT, FIELD_MOVING_AVG_SHORT, FIELD_MOVING_AVG_LONG}
                    \cup (IF self.timestamp # None THEN {FIELD_TIMESTAMP} ELSE {})
    IN  [k \in keys |->
            CASE k = FIELD_COUNT -> PyInt(self.count)
              [] k = FIELD_MOVING_AVG_SHORT -> PyFloat(self.moving_avg_short)
              [] k = FIELD_MOVING_AVG_LONG -> PyFloat(self.moving_avg_short)
              [] k = FIELD_TIMESTAMP -> PyInt(timestamp_seconds(self.timestamp[1]))]

\* A slip: the timestamp never written.
to_redis_dict_without_timestamp(self) ==
    [k \in {FIELD_COUNT, FIELD_MOVING_AVG_SHORT, FIELD_MOVING_AVG_LONG} |->
        CASE k = FIELD_COUNT -> PyInt(self.count)
          [] k = FIELD_MOVING_AVG_SHORT -> PyFloat(self.moving_avg_short)
          [] k = FIELD_MOVING_AVG_LONG -> PyFloat(self.moving_avg_long)]

\* A slip: an absent timestamp written as a null entry.
to_redis_dict_null_timestamp(self) ==
    [k \in {FIELD_COUNT, FIELD_MOVING_AVG_SHORT, FIELD_MOVING_AVG_LONG, FIELD_TIMESTAMP} |->
        CASE k = FIELD_COUNT -> PyInt(self.count)
          [] k = FIELD_MOVING_AVG_SHORT -> PyFloat(self.moving_avg_short)
          [] k = FIELD_MOVING_AVG_LONG -> PyFloat(self.moving_avg_long)
          [] k = FIELD_TIMESTAMP ->
                IF self.timestamp = None THEN PyNone
                ELSE PyInt(timestamp_seconds(self.timestamp[1]))]

to_redis_dict(self) ==
    LET keys == {FIELD_COUNT, FIELD_MOVING_AVG_SHORT, FIELD_MOVING_AVG_LONG}
                    \cup (IF self.timestamp # None THEN {FIELD_TIMESTAMP} ELSE {})
    IN  [k \in keys |->
            CASE k = FIELD_COUNT -> PyInt(self.count)
              [] k = FIELD_MOVING_AVG_SHORT -> PyFloat(self.moving_avg_short)
              [] k = FIELD_MOVING_AVG_LONG -> PyFloat(self.moving_avg_long)
              [] k = FIELD_TIMESTAMP -> PyInt(timestamp_seconds(self.timestamp[1]))]

\* Python's int() and float() on a value of a mapping.
int(v) ==
    CASE v.type = "int" -> v.val
      [] v.type = "float" -> Trunc(v.val[1], v.val[2])
      [] v.type = "str" /\ v.val = "7" -> 7

float(v) ==
    CASE v.type = "int" -> Rat(v.val, 1)
      [] v.type = "float" -> v.val
      [] v.type = "str" /\ v.val = "7" -> Rat(7, 1)
      [] v.type = "str" /\ v.val = "2.5" -> Rat(5, 2)

\* The exception int() and float() raise on a value, "None" when they return.
int_raises(v) ==
    CASE v.type = "str" /\ v.val \notin IntLiterals -> "ValueError"
      [] v.type = "NoneType" -> "TypeError"
      [] OTHER -> "None"

float_raises(v) ==
    CASE v.type = "str" /\ v.val \notin FloatLiterals -> "ValueError"
      [] v.type = "NoneType" -> "TypeError"
      [] OTHER -> "None"

\* data.get(key): <<the value>>, or None when the key is absent or holds None.
get(data, key) ==
    IF key \in DOMAIN data /\ data[key].type # "NoneType"
    THEN <<data[key]>>
    ELSE None

\* The exception data[key] followed by a conversion raises.
int_item_raises(data, key) ==
    IF key \notin DOMAIN data THEN "KeyError" ELSE int_raises(data[key])

float_item_raises(data, key) ==
    IF key \notin DOMAIN data THEN "KeyError" ELSE float_raises(data[key])

\* The first exception raised by statements executed in order.
first_raised(raised) ==
    LET failing == {i \in DOMAIN raised : raised[i] # "None"}
    IN  IF failing = {} THEN "None"
        ELSE raised[CHOOSE i \in failing : \A j \in failing : i <= j]

\* The outcome of from_redis_dict: the state returned, or the exception raised.
Returned(st) == [exception |-> "None", value |-> <<st>>]
Raised(e) == [exception |-> e, value |-> <<>>]

\* A slip: a missing count read as 0, as data.get(FIELD_COUNT, 0) would.
from_redis_dict_defaulting(data) ==
    LET ts == get(data, FIELD_TIMESTAMP)
        timestamp == IF ts = None THEN None ELSE <<fromtimestamp(int(ts[1]))>>
        count == IF FIELD_COUNT \in DOMAIN data THEN data[FIELD_COUNT] ELSE PyInt(0)
        raised == first_raised(<<
            IF ts = None THEN "None" ELSE int_raises(ts[1]),
            int_raises(count),
            float_item_raises(data, FIELD_MOVING_AVG_SHORT),
            float_item_raises(data, FIELD_MOVING_AVG_LONG)>>)
    IN  IF raised = "None"
        THEN Returned(MovingAverageCrossOverDetectorState(
                 timestamp,
                 int(count),
                 float(data[FIELD_MOVING_AVG_SHORT]),
                 float(data[FIELD_MOVING_AVG_LONG])))
        ELSE Raised(raised)

\* A slip: the timestamp read with data[FIELD_TIMESTAMP].
from_redis_dict_requiring_timestamp(data) ==
    LET raised == first_raised(<<
            int_item_raises(data, FIELD_TIMESTAMP),
            int_item_raises(data, FIELD_COUNT),
            float_item_raises(data, FIELD_MOVING_AVG_SHORT),
            float_item_raises(data, FIELD_MOVING_AVG_LONG)>>)
    IN  IF raised = "None"
        THEN Returned(MovingAverageCrossOverDetectorState(
                 <<fromtimestamp(int(data[FIELD_TIMESTAMP]))>>,
                 int(data[FIELD_COUNT]),
                 float(data[FIELD_MOVING_AVG_SHORT]),
                 float(data[FIELD_MOVING_AVG_LONG])))
        ELSE Raised(raised)

from_redis_dict(data) ==
    LET ts == get(data, FIELD_TIMESTAMP)
        timestamp == IF ts = None THEN None ELSE <<fromtimestamp(int(ts[1]))>>
        raised == first_raised(<<
            IF ts = None THEN "None" ELSE int_raises(ts[1]),
            int_item_raises(data, FIELD_COUNT),
            float_item_raises(data, FIELD_MOVING_AVG_SHORT),
            float_item_raises(data, FIELD_MOVING_AVG_LONG)>>)
    IN  IF raised = "None"
        THEN Returned(MovingAverageCrossOverDetectorState(
                 timestamp,
                 int(data[FIELD_COUNT]),
                 float(data[FIELD_MOVING_AVG_SHORT]),
                 float(data[FIELD_MOVING_AVG_LONG])))
        ELSE Raised(raised)

-----------------------------------------------------------------------------
(* MovingAverageCrossOverDetectorConfig *)

MovingAverageCrossOverDetectorConfig(min_data_points, short_kind, long_kind) ==
    [min_data_points |-> min_data_points,
     short_moving_avg_factory |-> short_kind,
     long_moving_avg_factory |-> long_kind]

-----------------------------------------------------------------------------
(* MovingAverageCrossOverDetector *)

\* A slip: the moving averages kept once for all detectors (as class
\* attributes would be) instead of one pair per detector.
MovingAverageCrossOverDetector_shared(hp, st, cfg) ==
    LET s == IF 1 \in DOMAIN hp THEN [heap |-> hp, ref |-> 1]
             ELSE factory(hp, cfg.short_moving_avg_factory)
        hp1 == [s.heap EXCEPT ![s.ref] =
                   MovingAverage_set(@, st.moving_avg_short, st.count)]
        l == IF 2 \in DOMAIN hp1 THEN [heap |-> hp1, ref |-> 2]
             ELSE factory(hp1, cfg.long_moving_avg_factory)
        hp2 == [l.heap EXCEPT ![l.ref] =
                   MovingAverage_set(@, st.moving_avg_long, st.count)]
    IN  [heap |-> hp2,
         self |-> [moving_avg_short |-> s.ref,
                   moving_avg_long |-> l.ref,
                   timestamp |-> st.timestamp,
                   count |-> st.count,
                   config |-> cfg]]

\* A slip: the long average set without the count of samples behind it.
MovingAverageCrossOverDetector_long_unseeded(hp, st, cfg) ==
    LET s == factory(hp, cfg.short_moving_avg_factory)
        hp1 == [s.heap EXCEPT ![s.ref] =
                   MovingAverage_set(@, st.moving_avg_short, st.count)]
        l == factory(hp1, cfg.long_moving_avg_factory)
        hp2 == [l.heap EXCEPT ![l.ref] =
                   MovingAverage_set(@, st.moving_avg_long, 0)]
    IN  [heap |-> hp2,
         self |-> [moving_avg_short |-> s.ref,
                   moving_avg_long |-> l.ref,
                   timestamp |-> st.timestamp,
                   count |-> st.count,
                   config |-> cfg]]

\* __init__: the new detector and the heap holding its two moving averages.
MovingAverageCrossOverDetector(hp, st, cfg) ==
    LET s == factory(hp, cfg.short_moving_avg_factory)
        hp1 == [s.heap EXCEPT ![s.ref] =
                   MovingAverage_set(@, st.moving_avg_short, st.count)]
        l == factory(hp1, cfg.long_moving_avg_factory)
        hp2 == [l.heap EXCEPT ![l.ref] =
                   MovingAverage_set(@, st.moving_avg_long, st.count)]
    IN  [heap |-> hp2,
         self |-> [moving_avg_short |-> s.ref,
                   moving_avg_long |-> l.ref,
                   timestamp |-> st.timestamp,
                   count |-> st.count,
                   config |-> cfg]]

\* A slip: the comparison of the guard the wrong way round.
out_of_order_flipped(self, payload) ==
    self.timestamp # None /\ self.timestamp[1] < payload.timestamp

\* The guard of update.
\* A slip: a detector without a timestamp rejecting every payload.
out_of_order_without_timestamp(self, payload) ==
    \/ self.timestamp = None
    \/ self.timestamp[1] > payload.timestamp

\* A slip: a payload with the detector's own timestamp rejected as well.
out_of_order_inclusive(self, payload) ==
    /\ self.timestamp # None
    /\ self.timestamp[1] >= payload.timestamp

out_of_order(self, payload) ==
    self.timestamp # None /\ self.timestamp[1] > payload.timestamp

\* A slip: the count incremented before the guard.
rejected_counting(hp, self) ==
    [heap |-> hp, self |-> [self EXCEPT !.count = @ + 1], result |-> "None"]

\* The rejected branch: nothing is changed.
rejected(hp, self) == [heap |-> hp, self |-> self, result |-> "None"]

\* A slip: stable as soon as the count reaches the threshold.
stablized_at_threshold(self) == self.count >= self.config.min_data_points

\* A slip: the stabilisation requirement not applied.
stablized_always(self) == self.count > 0

stablized(self) == self.count > self.config.min_data_points

\* A slip: Regressed only when the short average was strictly below before.
trend_strictly_below(is_stable, old_moving_avg_short, old_moving_avg_long, new_short, new_long) ==
    IF /\ is_stable
       /\ RatLT(new_long, new_short)
       /\ RatLT(old_moving_avg_short, old_moving_avg_long)
    THEN "Regressed"
    ELSE IF /\ is_stable
            /\ RatLT(new_short, new_long)
            /\ RatLE(old_moving_avg_long, old_moving_avg_short)
         THEN "Improved"
         ELSE "Unchanged"

\* A slip: Improved only when the short average was strictly above before.
trend_strictly_above(is_stable, old_moving_avg_short, old_moving_avg_long, new_short, new_long) ==
    IF /\ is_stable
       /\ RatLT(new_long, new_short)
       /\ RatLE(old_moving_avg_short, old_moving_avg_long)
    THEN "Regressed"
    ELSE IF /\ is_stable
            /\ RatLT(new_short, new_long)
            /\ RatLT(old_moving_avg_long, old_moving_avg_short)
         THEN "Improved"
         ELSE "Unchanged"

\* A slip: the two labels exchanged.
trend_labels_exchanged(is_stable, old_moving_avg_short, old_moving_avg_long, new_short, new_long) ==
    IF /\ is_stable
       /\ RatLT(new_long, new_short)
       /\ RatLE(old_moving_avg_short, old_moving_avg_long)
    THEN "Improved"
    ELSE IF /\ is_stable
            /\ RatLT(new_short, new_long)
            /\ RatLE(old_moving_avg_long, old_moving_avg_short)
         THEN "Regressed"
         ELSE "Unchanged"

\* A slip: the new averages compared with <= and >=.
trend_not_strict(is_stable, old_moving_avg_short, old_moving_avg_long, new_short, new_long) ==
    IF /\ is_stable
       /\ RatLE(new_long, new_short)
       /\ RatLE(old_moving_avg_short, old_moving_avg_long)
    THEN "Regressed"
    ELSE IF /\ is_stable
            /\ RatLE(new_short, new_long)
            /\ RatLE(old_moving_avg_long, old_moving_avg_short)
         THEN "Improved"
         ELSE "Unchanged"

\* A slip: the averages before the update not looked at.
trend_ignoring_old(is_stable, old_moving_avg_short, old_moving_avg_long, new_short, new_long) ==
    IF is_stable /\ RatLT(new_long, new_short)
    THEN "Regressed"
    ELSE IF is_stable /\ RatLT(new_short, new_long)
         THEN "Improved"
         ELSE "Unchanged"

\* A slip: the final return left out, so that the method returns None.
trend_without_default(is_stable, old_moving_avg_short, old_moving_avg_long, new_short, new_long) ==
    IF /\ is_stable
       /\ RatLT(new_long, new_short)
       /\ RatLE(old_moving_avg_short, old_moving_avg_long)
    THEN "Regressed"
    ELSE IF /\ is_stable
            /\ RatLT(new_short, new_long)
            /\ RatLE(old_moving_avg_long, old_moving_avg_short)
         THEN "Improved"
         ELSE "None"

\* The decision of update, from the averages before and after the payload.
trend(is_stable, old_moving_avg_short, old_moving_avg_long, new_short, new_long) ==
    IF /\ is_stable
       /\ RatLT(new_long, new_short)
       /\ RatLE(old_moving_avg_short, old_moving_avg_long)
    THEN "Regressed"
    ELSE IF /\ is_stable
            /\ RatLT(new_short, new_long)
            /\ RatLE(old_moving_avg_long, old_moving_avg_short)
         THEN "Improved"
         ELSE "Unchanged"

\* A slip: the timestamp not advanced to the payload's.
accepted_keeping_timestamp(hp, self, payload) ==
    LET old_moving_avg_short == hp[self.moving_avg_short].value
        old_moving_avg_long == hp[self.moving_avg_long].value
        hp1 == [hp EXCEPT ![self.moving_avg_short] =
                   MovingAverage_update(@, payload.value)]
        hp2 == [hp1 EXCEPT ![self.moving_avg_long] =
                   MovingAverage_update(@, payload.value)]
        self2 == [self EXCEPT !.count = @ + 1]
    IN  [heap |-> hp2,
         self |-> self2,
         result |-> trend(stablized(self2),
                          old_moving_avg_short, old_moving_avg_long,
                          hp2[self2.moving_avg_short].value,
                          hp2[self2.moving_avg_long].value)]

\* The accepted branch: both averages absorb the value, timestamp and count advance.
\* A slip: the timestamp assigned only while there is none.
accepted_stamping_once(hp, self, payload) ==
    LET old_moving_avg_short == hp[self.moving_avg_short].value
        old_moving_avg_long == hp[self.moving_avg_long].value
        hp1 == [hp EXCEPT ![self.moving_avg_short] =
                   MovingAverage_update(@, payload.value)]
        hp2 == [hp1 EXCEPT ![self.moving_avg_long] =
                   MovingAverage_update(@, payload.value)]
        self2 == [self EXCEPT !.timestamp = IF @ = None
                                            THEN <<payload.timestamp>> ELSE @,
                              !.count = @ + 1]
    IN  [heap |-> hp2,
         self |-> self2,
         result |-> trend(stablized(self2),
                          old_moving_avg_short, old_moving_avg_long,
                          hp2[self2.moving_avg_short].value,
                          hp2[self2.moving_avg_long].value)]

accepted(hp, self, payload) ==
    LET old_moving_avg_short == hp[self.moving_avg_short].value
        old_moving_avg_long == hp[self.moving_avg_long].value
        hp1 == [hp EXCEPT ![self.moving_avg_short] =
                   MovingAverage_update(@, payload.value)]
        hp2 == [hp1 EXCEPT ![self.moving_avg_long] =
                   MovingAverage_update(@, payload.value)]
        self2 == [self EXCEPT !.timestamp = <<payload.timestamp>>,
                              !.count = @ + 1]
    IN  [heap |-> hp2,
         self |-> self2,
         result |-> trend(stablized(self2),
                          old_moving_avg_short, old_moving_avg_long,
                          hp2[self2.moving_avg_short].value,
                          hp2[self2.moving_avg_long].value)]

\* A slip: the averages updated before the guard returns.
update_folding_first(hp, self, payload) ==
    IF out_of_order(self, payload)
    THEN rejected(accepted(hp, self, payload).heap, self)
    ELSE accepted(hp, self, payload)

\* A slip: the payload's timestamp recorded before the guard returns.
update_stamping(hp, self, payload) ==
    IF out_of_order(self, payload)
    THEN rejected(hp, [self EXCEPT !.timestamp = <<payload.timestamp>>])
    ELSE accepted(hp, self, payload)

update(hp, self, payload) ==
    IF out_of_order(self, payload)
    THEN rejected(hp, self)
    ELSE accepted(hp, self, payload)

\* The state property.
state(hp, self) ==
    MovingAverageCrossOverDetectorState(
        self.timestamp,
        self.count,
        hp[self.moving_avg_short].value,
        hp[self.moving_avg_short].value)

-----------------------------------------------------------------------------
(* The caller: one detector per entity, fed payloads, persisted and reloaded *)

Entities == DOMAIN detector

\* Everything a detector holds, with its moving averages read from the heap.
Internal(hp, self) ==
    [timestamp |-> self.timestamp,
     count |-> self.count,
     moving_avg_short |-> hp[self.moving_avg_short].value,
     moving_avg_long |-> hp[self.moving_avg_long].value,
     n_short |-> hp[self.moving_avg_short].n,
     n_long |-> hp[self.moving_avg_long].n]

Float(i) == Rat(i, 1)

Payload(timestamp, value) == [timestamp |-> timestamp, value |-> value]

Payloads == {Payload(t, Float(v)) : t \in 0..MaxTime, v \in Values}

Configs ==
    {MovingAverageCrossOverDetectorConfig(k, "latest", "cumulative") :
        k \in 0..MaxMinDataPoints}

\* States a caller may have persisted earlier, and the empty state.
InitialStates ==
    {empty,
     MovingAverageCrossOverDetectorState(<<1>>, 1, Float(10), Float(10)),
     MovingAverageCrossOverDetectorState(<<1>>, 1, Float(100), Float(50))}

\* The last call. retry: it repeats the call right before it, which was
\* rejected; fresh: no update was accepted by its detector instance before it.
NoCall ==
    [op |-> "none", entity |-> 0, payload |-> Payload(0, Float(0)),
     result |-> "None", before |-> <<>>, state_before |-> empty,
     retry |-> FALSE, fresh |-> TRUE]

\* fresh: no update since the detector was constructed;
\* every: every accepted update so far was the first on its detector instance.
NeverReloaded == [fresh |-> TRUE, every |-> TRUE]

\* One detector per entity 1..Len(sts), constructed in order on one heap.
RECURSIVE construct_all(_, _, _, _)
construct_all(hp, sts, cfg, built) ==
    IF sts = <<>>
    THEN [heap |-> hp, detector |-> built]
    ELSE LET c == MovingAverageCrossOverDetector(hp, Head(sts), cfg)
         IN  construct_all(c.heap, Tail(sts), cfg, Append(built, c.self))

NoRoundTrip ==
    /\ rt_state = empty
    /\ rt_data = <<>>
    /\ rt_loaded = <<>>

InitWith(sts, cfg) ==
    LET c == construct_all(<<>>, sts, cfg, <<>>)
    IN  /\ config = cfg
        /\ heap = c.heap
        /\ detector = c.detector
        /\ initial = sts
        /\ stream = [d \in DOMAIN sts |-> <<>>]
        /\ results = [d \in DOMAIN sts |-> <<>>]
        /\ last = NoCall
        /\ reloads = [d \in DOMAIN sts |-> NeverReloaded]
        /\ NoRoundTrip

\* The caller calls update on the detector of entity d.
CallUpdate(d, payload) ==
    LET r == update(heap, detector[d], payload)
    IN  /\ heap' = r.heap
        /\ detector' = [detector EXCEPT ![d] = r.self]
        /\ stream' = IF r.result = "None" THEN stream
                     ELSE [stream EXCEPT ![d] = Append(@, payload)]
        /\ results' = IF r.result = "None" THEN results
                      ELSE [results EXCEPT ![d] = Append(@, r.result)]
        /\ last' = [op |-> "update", entity |-> d, payload |-> payload,
                    result |-> r.result,
                    before |-> [e \in Entities |-> Internal(heap, detector[e])],
                    state_before |-> state(heap, detector[d]),
                    retry |-> /\ last.op = "update"
                              /\ last.result = "None"
                              /\ last.entity = d
                              /\ last.payload = payload,
                    fresh |-> reloads[d].fresh]
        /\ reloads' = IF r.result = "None" THEN reloads
                      ELSE [reloads EXCEPT ![d] =
                               [fresh |-> FALSE, every |-> @.every /\ @.fresh]]
        /\ UNCHANGED <<config, initial, rt_state, rt_data, rt_loaded>>

\* After an update the caller reads detector.state and constructs the detector
\* anew from it; the old detector and its moving averages are dropped.
Resume(d) ==
    LET st == state(heap, detector[d])
        dropped == {detector[d].moving_avg_short, detector[d].moving_avg_long}
        kept == [a \in DOMAIN heap \ dropped |-> heap[a]]
        c == MovingAverageCrossOverDetector(kept, st, config)
    IN  /\ ~reloads[d].fresh
        /\ heap' = c.heap
        /\ detector' = [detector EXCEPT ![d] = c.self]
        /\ last' = NoCall
        /\ reloads' = [reloads EXCEPT ![d] = [fresh |-> TRUE, every |-> @.every]]
        /\ UNCHANGED <<config, initial, stream, results, rt_state, rt_data, rt_loaded>>

(* One detector instance, constructed from a persisted or the empty state. *)

Init == \E st \in InitialStates, cfg \in Configs : InitWith(<<st>>, cfg)

Update ==
    \E d \in Entities, payload \in Payloads :
        /\ Len(stream[d]) < MaxUpdates
        /\ CallUpdate(d, payload)

Next == Update

Spec == Init /\ [][Next]_vars

(* The same, with the detector persisted and reconstructed between updates. *)

Reload == \E d \in Entities : Resume(d)

NextResume == Update \/ Reload

SpecResume == Init /\ [][NextResume]_vars

(* Two entities, each with its own detector built from the empty state. *)

InitEntities == \E cfg \in Configs : InitWith(<<empty, empty>>, cfg)

RECURSIVE Total(_, _)
Total(f, n) == IF n = 0 THEN 0 ELSE Len(f[n]) + Total(f, n - 1)

UpdateEntity ==
    \E d \in Entities, payload \in Payloads :
        /\ Total(stream, Len(stream)) < EntityUpdates
        /\ CallUpdate(d, payload)

NextEntities == UpdateEntity

SpecEntities == InitEntities /\ [][NextEntities]_vars

(* The cross-over scenario: five values fed in order to one detector. *)

ScenarioValues == <<10, 10, 10, 100, 100>>

ScenarioConfig == MovingAverageCrossOverDetectorConfig(2, "latest", "cumulative")

InitScenario == InitWith(<<empty>>, ScenarioConfig)

Feed ==
    \E t \in 0..ScenarioMaxTime :
        /\ Len(stream[1]) < Len(ScenarioValues)
        /\ CallUpdate(1, Payload(t, Float(ScenarioValues[Len(stream[1]) + 1])))

NextScenario == Feed

SpecScenario == InitScenario /\ [][NextScenario]_vars

(* One detector, with the state taken through redis: written with to_redis_dict,
   read back with from_redis_dict, and the detector constructed from it. *)

Restore(d) ==
    LET st == from_redis_dict(to_redis_dict(state(heap, detector[d]))).value[1]
        dropped == {detector[d].moving_avg_short, detector[d].moving_avg_long}
        kept == [a \in DOMAIN heap \ dropped |-> heap[a]]
        c == MovingAverageCrossOverDetector(kept, st, config)
    IN  /\ ~reloads[d].fresh
        /\ heap' = c.heap
        /\ detector' = [detector EXCEPT ![d] = c.self]
        /\ last' = NoCall
        /\ reloads' = [reloads EXCEPT ![d] = [fresh |-> TRUE, every |-> @.every]]
        /\ UNCHANGED <<config, initial, stream, results, rt_state, rt_data, rt_loaded>>

InitPersist == InitWith(<<empty>>, ScenarioConfig)

Persist == \E d \in Entities : Restore(d)

NextPersist == Update \/ Persist

SpecPersist == InitPersist /\ [][NextPersist]_vars

(* Serialization: a state is written to a redis mapping and read back. *)

RoundTripFloats == {Float(0), Float(10), Rat(65, 2), Rat(-3, 2)}

RoundTripStates ==
    {MovingAverageCrossOverDetectorState(ts, c, s, l) :
        ts \in {None} \cup {<<t>> : t \in (-MaxTime)..MaxTime},
        c \in 0..MaxRoundTripCount,
        s \in RoundTripFloats, l \in RoundTripFloats}

InitRoundTrip ==
    /\ rt_state \in RoundTripStates
    /\ rt_data = <<>>
    /\ rt_loaded = <<>>
    /\ config = ScenarioConfig
    /\ heap = <<>>
    /\ detector = <<>>
    /\ initial = <<>>
    /\ stream = <<>>
    /\ results = <<>>
    /\ last = NoCall
    /\ reloads = <<>>

Write ==
    /\ rt_data = <<>>
    /\ rt_data' = <<to_redis_dict(rt_state)>>
    /\ UNCHANGED <<config, heap, detector, initial, stream, results, last,
                   reloads, rt_state, rt_loaded>>

Read ==
    /\ rt_data # <<>>
    /\ rt_loaded = <<>>
    /\ rt_loaded' = <<from_redis_dict(rt_data[1])>>
    /\ UNCHANGED <<config, heap, detector, initial, stream, results, last,
                   reloads, rt_state, rt_data>>

NextRoundTrip == Write \/ Read

SpecRoundTrip == InitRoundTrip /\ [][NextRoundTrip]_vars

(* Deserialization: a mapping found in redis, well-formed or not, is read. *)

Absent == [type |-> "absent", val |-> 0]

TimestampEntries == {Absent, PyNone, PyInt(1), PyStr("7"), PyStr("abc")}

CountEntries ==
    {Absent, PyNone, PyInt(2), PyFloat(Rat(5, 2)), PyStr("7"), PyStr("2.5"), PyStr("abc")}

ShortEntries == {Absent, PyFloat(Rat(65, 2)), PyInt(10), PyStr("2.5"), PyStr("abc")}

LongEntries == {Absent, PyFloat(Float(10)), PyStr("abc")}

Mapping(t, c, s, l) ==
    LET entry == [k \in {FIELD_TIMESTAMP, FIELD_COUNT, FIELD_MOVING_AVG_SHORT,
                         FIELD_MOVING_AVG_LONG} |->
                     CASE k = FIELD_TIMESTAMP -> t
                       [] k = FIELD_COUNT -> c
                       [] k = FIELD_MOVING_AVG_SHORT -> s
                       [] k = FIELD_MOVING_AVG_LONG -> l]
    IN  [k \in {x \in DOMAIN entry : entry[x] # Absent} |-> entry[k]]

Mappings ==
    {Mapping(t, c, s, l) : t \in TimestampEntries, c \in CountEntries,
                           s \in ShortEntries, l \in LongEntries}

InitMapping ==
    /\ rt_state = empty
    /\ rt_data \in {<<m>> : m \in Mappings}
    /\ rt_loaded = <<>>
    /\ config = ScenarioConfig
    /\ heap = <<>>
    /\ detector = <<>>
    /\ initial = <<>>
    /\ stream = <<>>
    /\ results = <<>>
    /\ last = NoCall
    /\ reloads = <<>>

NextMapping == Read

SpecMapping == InitMapping /\ [][NextMapping]_vars

-----------------------------------------------------------------------------
(* Properties *)

\* The last call was an update; Before and Now are the detector it was made
\* on, as it was before the call and as it is after it.
Called == last.op = "update"
Accepted == Called /\ last.result # "None"
Before == last.before[last.entity]
Now == Internal(heap, detector[last.entity])

\* A detector run alone: constructed from st on a heap of its own and fed
\* the payloads in order.
RECURSIVE feed(_, _, _, _)
feed(hp, self, payloads, returned) ==
    IF payloads = <<>>
    THEN [heap |-> hp, self |-> self, results |-> returned]
    ELSE LET r == update(hp, self, Head(payloads))
         IN  feed(r.heap, r.self, Tail(payloads), Append(returned, r.result))

RunAlone(st, cfg, payloads) ==
    LET c == MovingAverageCrossOverDetector(<<>>, st, cfg)
    IN  feed(c.heap, c.self, payloads, <<>>)

\* C1: an update whose payload is older than the detector's timestamp returns
\* None and leaves the detector, and the state read from it, as they were.
MonotonicityGuard ==
    (/\ Called
     /\ Before.timestamp # None
     /\ last.payload.timestamp < Before.timestamp[1])
    => /\ last.result = "None"
       /\ Now = Before
       /\ state(heap, detector[last.entity]) = last.state_before

MonotonicityGuardWitness ==
    /\ Called
    /\ Before.timestamp # None
    /\ last.payload.timestamp < Before.timestamp[1]
    /\ last.result = "None"
    /\ Len(stream[last.entity]) > 0

\* C2: the state read from a detector carries the short average's value as
\* moving_avg_short and the long average's value as moving_avg_long.
StateReflectsAverages ==
    \A d \in Entities :
        /\ state(heap, detector[d]).moving_avg_short
               = heap[detector[d].moving_avg_short].value
        /\ state(heap, detector[d]).moving_avg_long
               = heap[detector[d].moving_avg_long].value

\* C3: a run that reconstructs the detector from its state after every update
\* returns the same results and ends in the same state as one detector fed
\* the whole stream.
ResumeExactness ==
    \A d \in Entities :
        reloads[d].every =>
            LET r == RunAlone(initial[d], config, stream[d])
            IN  /\ results[d] = r.results
                /\ state(heap, detector[d]) = state(r.heap, r.self)

\* C4: an accepted update after which count <= min_data_points returns
\* Unchanged.
StabilizationBoundary ==
    (Accepted /\ Now.count <= config.min_data_points)
    => last.result = "Unchanged"

\* A resumed count, and averages that cross from not-above to above.
StabilizationBoundaryWitness ==
    /\ Accepted
    /\ Now.count <= config.min_data_points
    /\ initial[last.entity].count > 0
    /\ RatLT(Now.moving_avg_long, Now.moving_avg_short)
    /\ RatLE(Before.moving_avg_short, Before.moving_avg_long)
    /\ last.result = "Unchanged"

\* C5: an accepted update returns Regressed exactly when count exceeds
\* min_data_points, the short average is now above the long one and was not
\* above it before.
RegressedExactly ==
    Accepted =>
        (last.result = "Regressed"
         <=> /\ Now.count > config.min_data_points
             /\ RatLT(Now.moving_avg_long, Now.moving_avg_short)
             /\ RatLE(Before.moving_avg_short, Before.moving_avg_long))

RegressedWitness ==
    /\ Accepted
    /\ last.result = "Regressed"
    /\ Before.moving_avg_short = Before.moving_avg_long

\* C6: an accepted update returns Improved exactly when count exceeds
\* min_data_points, the short average is now below the long one and was not
\* below it before; an update that is neither returns Unchanged.
ImprovedExactly ==
    Accepted =>
        LET improved ==
                /\ Now.count > config.min_data_points
                /\ RatLT(Now.moving_avg_short, Now.moving_avg_long)
                /\ RatLE(Before.moving_avg_long, Before.moving_avg_short)
        IN  /\ last.result = "Improved" <=> improved
            /\ last.result \in {"Regressed", "Improved", "Unchanged"}

ImprovedWitness ==
    /\ Accepted
    /\ last.result = "Improved"
    /\ Before.moving_avg_short = Before.moving_avg_long

\* C7: count is the initial count plus the number of accepted updates; no
\* update lowers it and a rejected update leaves it alone.
CountMonotonicity ==
    /\ \A d \in Entities : detector[d].count = initial[d].count + Len(stream[d])
    /\ Called => /\ Now.count >= Before.count
                 /\ last.result = "None" => Now.count = Before.count

CountMonotonicityWitness ==
    /\ Called
    /\ last.result = "None"
    /\ initial[last.entity].count > 0
    /\ Len(stream[last.entity]) >= 2

\* C8: a state written to a mapping and read back keeps count and both
\* averages; None stays None, and a timestamp comes back as a whole second
\* less than one second away (the same instant when it was a whole second).
RoundTrip ==
    rt_loaded # <<>> =>
        /\ rt_loaded[1].exception = "None"
        /\ LET s == rt_loaded[1].value[1]
           IN  /\ s.count = rt_state.count
               /\ s.moving_avg_short = rt_state.moving_avg_short
               /\ s.moving_avg_long = rt_state.moving_avg_long
               /\ (rt_state.timestamp = None) <=> (s.timestamp = None)
               /\ rt_state.timestamp # None =>
                      /\ s.timestamp[1] % TicksPerSecond = 0
                      /\ Abs(s.timestamp[1] - rt_state.timestamp[1]) < TicksPerSecond
                      /\ rt_state.timestamp[1] % TicksPerSecond = 0
                             => s.timestamp = rt_state.timestamp

\* A timestamp with a sub-second part, and averages that differ.
RoundTripWitness ==
    /\ rt_loaded # <<>>
    /\ rt_state.timestamp # None
    /\ rt_state.timestamp[1] % TicksPerSecond # 0
    /\ rt_state.moving_avg_short # rt_state.moving_avg_long
    /\ rt_loaded[1].value[1].timestamp # rt_state.timestamp

\* C9: fed 10, 10, 10, 100, 100 with strictly increasing timestamps, the
\* detector returns Regressed for the fourth value and Unchanged for the rest.
StrictlyIncreasing(payloads) ==
    \A i \in 1..(Len(payloads) - 1) :
        payloads[i].timestamp < payloads[i + 1].timestamp

ScenarioExpected == <<"Unchanged", "Unchanged", "Unchanged", "Regressed", "Unchanged">>

CrossoverScenario ==
    StrictlyIncreasing(stream[1]) =>
        results[1] = SubSeq(ScenarioExpected, 1, Len(results[1]))

CrossoverScenarioWitness ==
    /\ StrictlyIncreasing(stream[1])
    /\ Len(results[1]) = Len(ScenarioValues)
    /\ results[1][4] = "Regressed"

\* C10: each of two detectors is, in every interleaving, what it would be had
\* its own payloads been run alone; an update on one leaves the other as it was.
IndependentEntities ==
    /\ \A d \in Entities :
           LET r == RunAlone(empty, config, stream[d])
           IN  /\ Internal(heap, detector[d]) = Internal(r.heap, r.self)
               /\ results[d] = r.results
    /\ Called => \A e \in Entities \ {last.entity} :
                     Internal(heap, detector[e]) = last.before[e]

\* Both detectors have accepted payloads, and they hold different averages.
IndependentEntitiesWitness ==
    /\ Accepted
    /\ \A d \in Entities : Len(stream[d]) > 0
    /\ Internal(heap, detector[1]).moving_avg_long
           # Internal(heap, detector[2]).moving_avg_long

\* C11: in every state read from a detector that was built from the empty
\* state, count is 0 exactly when there is no timestamp.
CountZeroIffNoTimestamp ==
    \A d \in Entities :
        initial[d] = empty =>
            LET s == state(heap, detector[d])
            IN  (s.count = 0) <=> (s.timestamp = None)

\* Accepted updates, then a rejected one, on a detector built from empty.
CountZeroIffNoTimestampWitness ==
    /\ Called
    /\ last.result = "None"
    /\ initial[last.entity] = empty
    /\ Len(stream[last.entity]) >= 2
    /\ state(heap, detector[last.entity]).count > 0

Loaded == rt_data # <<>> /\ rt_loaded # <<>>

\* The entry under key is there and is a number or a numeric literal.
Parses(data, key, literals) ==
    /\ key \in DOMAIN data
    /\ \/ data[key].type \in {"int", "float"}
       \/ data[key].type = "str" /\ data[key].val \in literals

Malformed(data) ==
    \/ ~Parses(data, FIELD_COUNT, IntLiterals)
    \/ ~Parses(data, FIELD_MOVING_AVG_SHORT, FloatLiterals)
    \/ ~Parses(data, FIELD_MOVING_AVG_LONG, FloatLiterals)

\* C12 as stated: from_redis_dict on a mapping whose C, S or L entry is missing
\* or not parseable as a number fails with a MalformedStateError and yields no
\* state.
MalformedRaisesMalformedStateError ==
    Loaded /\ Malformed(rt_data[1]) =>
        rt_loaded[1] = Raised("MalformedStateError")

\* C12 amended: from_redis_dict on such a mapping yields no state and fails
\* with a built-in KeyError, ValueError or TypeError; it is a KeyError only
\* when an entry is missing, and always one when C is missing and T is usable.
MalformedRaisesBuiltin ==
    Loaded /\ Malformed(rt_data[1]) =>
        LET data == rt_data[1]
            required == {FIELD_COUNT, FIELD_MOVING_AVG_SHORT, FIELD_MOVING_AVG_LONG}
        IN  /\ rt_loaded[1].value = <<>>
            /\ rt_loaded[1].exception \in {"KeyError", "ValueError", "TypeError"}
            /\ rt_loaded[1].exception = "KeyError" => ~(required \subseteq DOMAIN data)
            /\ required \subseteq DOMAIN data => rt_loaded[1].exception # "KeyError"
            /\ FIELD_COUNT \notin DOMAIN data /\ FIELD_TIMESTAMP \notin DOMAIN data =>
                   rt_loaded[1].exception = "KeyError"

MalformedRaisesBuiltinWitness ==
    /\ Loaded
    /\ DOMAIN rt_data[1] = {FIELD_MOVING_AVG_SHORT, FIELD_MOVING_AVG_LONG}
    /\ Parses(rt_data[1], FIELD_MOVING_AVG_SHORT, FloatLiterals)
    /\ Parses(rt_data[1], FIELD_MOVING_AVG_LONG, FloatLiterals)
    /\ rt_loaded[1] = Raised("KeyError")

\* C13: the mapping to_redis_dict writes holds C, S and L with the state's
\* count and averages, and holds T exactly when the state has a timestamp, T
\* being the integer number of whole seconds of that timestamp (any fraction
\* of a second dropped).
WrittenKeys ==
    rt_data # <<>> =>
        LET data == rt_data[1]
        IN  /\ DOMAIN data \subseteq {FIELD_TIMESTAMP, FIELD_COUNT,
                                      FIELD_MOVING_AVG_SHORT, FIELD_MOVING_AVG_LONG}
            /\ {FIELD_COUNT, FIELD_MOVING_AVG_SHORT, FIELD_MOVING_AVG_LONG}
                   \subseteq DOMAIN data
            /\ data[FIELD_COUNT] = PyInt(rt_state.count)
            /\ data[FIELD_MOVING_AVG_SHORT] = PyFloat(rt_state.moving_avg_short)
            /\ data[FIELD_MOVING_AVG_LONG] = PyFloat(rt_state.moving_avg_long)
            /\ FIELD_TIMESTAMP \in DOMAIN data <=> rt_state.timestamp # None
            /\ FIELD_TIMESTAMP \in DOMAIN data =>
                   /\ data[FIELD_TIMESTAMP].type = "int"
                   /\ Abs(data[FIELD_TIMESTAMP].val * TicksPerSecond)
                          <= Abs(rt_state.timestamp[1])
                   /\ Abs(rt_state.timestamp[1]
                          - data[FIELD_TIMESTAMP].val * TicksPerSecond) < TicksPerSecond

WrittenKeysWitness ==
    /\ rt_data # <<>>
    /\ rt_state.timestamp = None
    /\ DOMAIN rt_data[1] =
           {FIELD_COUNT, FIELD_MOVING_AVG_SHORT, FIELD_MOVING_AVG_LONG}

\* C14: from_redis_dict on a mapping with valid C, S and L entries and no T
\* entry returns a state with timestamp None and the parsed count and averages.
MissingTimestampTolerated ==
    Loaded /\ FIELD_TIMESTAMP \notin DOMAIN rt_data[1] /\ ~Malformed(rt_data[1]) =>
        /\ rt_loaded[1].exception = "None"
        /\ rt_loaded[1].value # <<>>
        /\ rt_loaded[1].value[1] =
               MovingAverageCrossOverDetectorState(
                   None,
                   int(rt_data[1][FIELD_COUNT]),
                   float(rt_data[1][FIELD_MOVING_AVG_SHORT]),
                   float(rt_data[1][FIELD_MOVING_AVG_LONG]))

MissingTimestampToleratedWitness ==
    /\ Loaded
    /\ rt_data[1] = Mapping(Absent, PyStr("7"), PyStr("2.5"), PyFloat(Float(10)))
    /\ rt_loaded[1] =
           Returned(MovingAverageCrossOverDetectorState(None, 7, Rat(5, 2), Rat(10, 1)))

\* C15: an accepted update with the short and long averages equal both before
\* and after it returns Unchanged, stabilized or not.
NoSignalOnEquality ==
    /\ Accepted
    /\ Before.moving_avg_short = Before.moving_avg_long
    /\ Now.moving_avg_short = Now.moving_avg_long
    => last.result = "Unchanged"

NoSignalOnEqualityWitness ==
    /\ Accepted
    /\ Before.moving_avg_short = Before.moving_avg_long
    /\ Now.moving_avg_short = Now.moving_avg_long
    /\ stablized(detector[last.entity])
    /\ last.result = "Unchanged"

Phase(self) ==
    CASE self.count = 0 /\ self.timestamp = None -> "Unseeded"
      [] 0 < self.count /\ self.count <= self.config.min_data_points -> "Accumulating"
      [] self.count > self.config.min_data_points /\ self.count > 0 -> "Stabilized"
      [] OTHER -> "Unclassified"

PhaseRank(phase) ==
    CASE phase = "Unseeded" -> 0
      [] phase = "Accumulating" -> 1
      [] phase = "Stabilized" -> 2
      [] OTHER -> -1

\* C16: a detector's phase (Unseeded, Accumulating, Stabilized) never moves
\* backward, changes only in a step that is an accepted update of that
\* detector, and is left as it was by a rejected update.
PhaseMonotonicity ==
    [][\A d \in Entities :
          LET old == Phase(detector[d])
              new == Phase(detector'[d])
          IN  /\ PhaseRank(old) >= 0
              /\ PhaseRank(old) <= PhaseRank(new)
              /\ old # new =>
                     /\ last'.op = "update"
                     /\ last'.entity = d
                     /\ last'.result # "None"
              /\ last'.op = "update" /\ last'.result = "None" => old = new]_vars

PhaseMonotonicityWitness ==
    /\ Called
    /\ last.result = "None"
    /\ initial[last.entity] = empty
    /\ config.min_data_points >= 1
    /\ Phase(detector[last.entity]) = "Stabilized"

\* C17: an update that repeats a rejected update, with nothing in between, is
\* rejected again and leaves the detector as it was.
RetryRejected ==
    Called /\ last.retry =>
        /\ last.result = "None"
        /\ Now = Before
        /\ state(heap, detector[last.entity]) = last.state_before

RetryRejectedWitness ==
    /\ Called
    /\ last.retry
    /\ last.result = "None"
    /\ Now = Before

\* C19: the first accepted update of a detector reconstructed from the state
\* read right after an update that returned Regressed does not return
\* Regressed, and likewise for Improved.
NoRepeatedSignalAfterReload ==
    Accepted /\ last.fresh /\ Len(results[last.entity]) >= 2 =>
        LET n == Len(results[last.entity])
        IN  ~ /\ results[last.entity][n] \in {"Regressed", "Improved"}
              /\ results[last.entity][n] = results[last.entity][n - 1]

\* The timestamp of the last payload the entity's detectors processed before
\* the last call, None when there was none.
LastProcessed ==
    LET s == stream[last.entity]
        n == IF Accepted THEN Len(s) - 1 ELSE Len(s)
    IN  IF n = 0 THEN initial[last.entity].timestamp ELSE <<s[n].timestamp>>

\* The last call was the first update of a detector reconstructed from a
\* persisted state.
OnReconstructed ==
    /\ Called
    /\ last.fresh
    /\ Len(stream[last.entity]) >= (IF Accepted THEN 2 ELSE 1)

WholeSecond(t) == (t \div TicksPerSecond) * TicksPerSecond

\* C20 as stated: a payload earlier than the last processed payload is
\* rejected by the detector reconstructed from
\* from_redis_dict(detector.state.to_redis_dict()), also within the same second.
GuardSurvivesPersistence ==
    /\ OnReconstructed
    /\ LastProcessed # None
    /\ last.payload.timestamp < LastProcessed[1]
    => last.result = "None"

\* C20 amended: a payload earlier than the whole second of the last processed
\* payload's timestamp is rejected by the reconstructed detector.
GuardSurvivesToTheSecond ==
    /\ OnReconstructed
    /\ LastProcessed # None
    /\ last.payload.timestamp < WholeSecond(LastProcessed[1])
    => last.result = "None"

GuardSurvivesToTheSecondWitness ==
    /\ OnReconstructed
    /\ LastProcessed # None
    /\ last.payload.timestamp < WholeSecond(LastProcessed[1])
    /\ last.result = "None"
    /\ detector[last.entity].timestamp = <<WholeSecond(LastProcessed[1])>>

\* C21: a payload rejected as out of order, wherever it comes in the stream,
\* leaves every other result and the detector as in the run of the accepted
\* payloads alone, and after it every in-order payload is accepted with the
\* result and the detector of that run.
RejectedLeavesStream ==
    /\ \A d \in Entities :
           LET alone == RunAlone(initial[d], config, stream[d])
           IN  /\ results[d] = alone.results
               /\ Internal(heap, detector[d]) = Internal(alone.heap, alone.self)
    /\ Called /\ last.result = "None" =>
           \A p \in Payloads :
               p.timestamp >= Before.timestamp[1] =>
                   LET later == update(heap, detector[last.entity], p)
                       alone == RunAlone(initial[last.entity], config,
                                         Append(stream[last.entity], p))
                   IN  /\ later.result # "None"
                       /\ later.result = alone.results[Len(alone.results)]
                       /\ Internal(later.heap, later.self)
                              = Internal(alone.heap, alone.self)

RejectedLeavesStreamWitness ==
    /\ Called
    /\ last.result = "None"
    /\ Len(stream[last.entity]) >= 2
    /\ \E p \in Payloads :
           /\ p.timestamp >= Before.timestamp[1]
           /\ update(heap, detector[last.entity], p).result = "Regressed"

\* C22: an update whose payload carries the detector's own timestamp is
\* accepted: count grows by one and both averages take the value in.
EqualTimestampAccepted ==
    Called /\ Before.timestamp = <<last.payload.timestamp>> =>
        /\ last.result # "None"
        /\ Now.count = Before.count + 1
        /\ Now.timestamp = Before.timestamp
        /\ Now.n_short = Before.n_short + 1
        /\ Now.n_long = Before.n_long + 1
        /\ Now.moving_avg_short = last.payload.value
        /\ RatScale(Now.moving_avg_long, Now.n_long)
               = RatAdd(RatScale(Before.moving_avg_long, Before.n_long),
                        last.payload.value)

\* The same payload delivered twice in a row.
EqualTimestampAcceptedWitness ==
    /\ Accepted
    /\ Before.timestamp = <<last.payload.timestamp>>
    /\ Len(stream[last.entity]) >= 2
    /\ stream[last.entity][Len(stream[last.entity]) - 1] = last.payload
    /\ Now.count = Before.count + 1

TrendType == {"Regressed", "Improved", "Unchanged"}

\* C23: on one detector instance no two consecutive accepted updates both
\* return Regressed, nor both Improved; after Regressed the short average is
\* above the long one, after Improved below it.
NoRepeatedSignal ==
    /\ \A d \in Entities :
           \A i \in 1..(Len(results[d]) - 1) :
               results[d][i] \in {"Regressed", "Improved"} =>
                   results[d][i + 1] # results[d][i]
    /\ Accepted /\ last.result = "Regressed" =>
           RatLT(Now.moving_avg_long, Now.moving_avg_short)
    /\ Accepted /\ last.result = "Improved" =>
           RatLT(Now.moving_avg_short, Now.moving_avg_long)

\* A rise right after a signalled rise.
NoRepeatedSignalWitness ==
    /\ Accepted
    /\ Len(results[last.entity]) >= 2
    /\ results[last.entity][Len(results[last.entity]) - 1] = "Regressed"
    /\ RatLT(Before.moving_avg_short, last.payload.value)
    /\ last.result = "Unchanged"

\* C24: update returns None exactly when the guard rejects the payload, and
\* one of Regressed, Improved, Unchanged otherwise.
NoneOnlyWhenRejected ==
    /\ Called =>
           /\ last.result = "None" <=>
                  /\ Before.timestamp # None
                  /\ Before.timestamp[1] > last.payload.timestamp
           /\ last.result # "None" => last.result \in TrendType
    /\ \A d \in Entities :
           /\ Len(results[d]) = Len(stream[d])
           /\ \A i \in 1..Len(results[d]) : results[d][i] \in TrendType

NoneOnlyWhenRejectedWitness ==
    /\ Accepted
    /\ Before.timestamp # None
    /\ Before.timestamp[1] < last.payload.timestamp
    /\ \A t \in TrendType : \E i \in 1..Len(results[last.entity]) :
           results[last.entity][i] = t

\* C25: the detector's timestamp is the timestamp of the payload accepted
\* last, or the initial state's when none was accepted, and no update call
\* moves it back.
TimestampOfLastAccepted ==
    /\ \A d \in Entities :
           detector[d].timestamp =
               IF stream[d] = <<>> THEN initial[d].timestamp
               ELSE <<stream[d][Len(stream[d])].timestamp>>
    /\ Called /\ Before.timestamp # None =>
           /\ Now.timestamp # None
           /\ Now.timestamp[1] >= Before.timestamp[1]

TimestampOfLastAcceptedWitness ==
    /\ Accepted
    /\ Before.timestamp # None
    /\ Now.timestamp[1] > Before.timestamp[1]
    /\ Len(stream[last.entity]) >= 2

\* Timestamps in non-decreasing order.
InOrder(payloads) ==
    \A i \in 1..(Len(payloads) - 1) :
        payloads[i].timestamp <= payloads[i + 1].timestamp

\* C26: from the empty state no accepted update before the
\* (min_data_points + 1)-th returns anything but Unchanged, and that one can
\* return Regressed (the witness: an in-order stream on which it does).
ThresholdTight ==
    \A d \in Entities :
        initial[d] = empty =>
            \A i \in 1..Len(results[d]) :
                results[d][i] # "Unchanged" => i >= config.min_data_points + 1

ThresholdTightWitness ==
    /\ Accepted
    /\ initial[last.entity] = empty
    /\ config.min_data_points = MaxMinDataPoints
    /\ config.short_moving_avg_factory = "latest"
    /\ config.long_moving_avg_factory = "cumulative"
    /\ InOrder(stream[last.entity])
    /\ Len(results[last.entity]) = config.min_data_points + 1
    /\ last.result = "Regressed"

\* C29: the short and the long average of a detector have both absorbed as
\* many samples as the detector's count says.
SamplesEqualCount ==
    \A d \in Entities :
        LET now == Internal(heap, detector[d])
        IN  /\ now.n_short = now.count
            /\ now.n_long = now.count
            /\ now.count = initial[d].count + Len(stream[d])

\* A resumed detector after an accepted and then a rejected update.
SamplesEqualCountWitness ==
    /\ Called
    /\ last.result = "None"
    /\ initial[last.entity].count > 0
    /\ Len(stream[last.entity]) >= 1
    /\ Now.n_long = initial[last.entity].count + Len(stream[last.entity])

\* The last call was the first update of a detector built from the empty state.
FirstOnEmpty ==
    /\ Called
    /\ initial[last.entity] = empty
    /\ Before.count = 0
    /\ Before.timestamp = None

\* C30 as stated: the first update on a detector built from the empty state is
\* accepted whatever its timestamp, and leaves the detector Accumulating with
\* count 1 and the payload's timestamp, for every config.
FirstUpdateAccumulating ==
    FirstOnEmpty =>
        /\ last.result # "None"
        /\ Now.count = 1
        /\ Now.timestamp = <<last.payload.timestamp>>
        /\ Phase(detector[last.entity]) = "Accumulating"

\* C30 amended: that update is accepted and leaves count 1 and the payload's
\* timestamp; the detector is then Accumulating when min_data_points >= 1 and
\* Stabilized when min_data_points < 1.
FirstUpdateSeeds ==
    FirstOnEmpty =>
        /\ last.result # "None"
        /\ Now.count = 1
        /\ Now.timestamp = <<last.payload.timestamp>>
        /\ Phase(detector[last.entity]) =
               IF config.min_data_points >= 1 THEN "Accumulating" ELSE "Stabilized"

FirstUpdateSeedsWitness ==
    /\ FirstOnEmpty
    /\ config.min_data_points >= 1
    /\ last.payload.timestamp = 0
    /\ Now.count = 1
    /\ Phase(detector[last.entity]) = "Accumulating"

====
